---- MODULE Spec2Model ----
(***************************************************************************)
(* A model of app.py of Customer-Data-Platform-Bot: the documentation     *)
(* crawler (scrape_documentation), the per-platform JSON cache            *)
(* (load_documentation), the relevance selector (find_relevant_documents) *)
(* and the answer composer (answer_question).                              *)
(*                                                                         *)
(* A URL string is modelled by the three parts urlparse splits it into    *)
(* that the code reads: [scheme, netloc, path]; a path is a number, 0     *)
(* being the path of the platform's seed URL.  A page's text is modelled  *)
(* by its number of words and of characters.                               *)
(***************************************************************************)
EXTENDS Integers, Sequences, FiniteSets, TLC

\* ------------------------------------------------------------ bounds
\* Links on one page.
MaxLinks == 2
\* The first fetches of a crawl, which may yield any page: a failure, a short
\* or a long page, any list of links.  Later fetches yield plain pages.
RichWindow == 2
\* The site offers a new URL only while fewer than this many are pending.
MaxFrontier == 2

\* Calls of load_documentation in one run.
MaxLoads == 2
\* Cache files deleted from outside in one run.
MaxDeletes == 1

\* Comma-separated pieces of one ranking reply.
MaxReply == 4

\* HTTP requests received in one run of the server.
MaxRequests == 2

\* ------------------------------------------------------------ constants
\* max_pages = 50
max_pages == 50
\* len(content.split()) < 20
min_words == 20
\* content[:8000]
max_content == 8000
\* docs_to_search[:20]
max_docs == 20
\* cdp_docs[:5]
per_cdp == 5
\* min(3, len(...)): the documents of the fallback
top_k == 3

\* ------------------------------------------------------------ helpers
Range(s) == {s[i] : i \in DOMAIN s}

Min(a, b) == IF a < b THEN a ELSE b

SeqsUpTo(S, n) == UNION {[1..k -> S] : k \in 0..n}

\* ------------------------------------------------------------ platforms
\* self.cdps, in the dict's insertion order.
CdpNames == <<"segment", "mparticle", "lytics", "zeotap">>

Cdps == Range(CdpNames)

Url(scheme, netloc, path) == [scheme |-> scheme, netloc |-> netloc, path |-> path]

\* self.cdps[cdp]: the seed URL of a platform.
cdps(cdp) ==
  CASE cdp = "segment" -> Url("https", "segment.com", 0)
    [] cdp = "mparticle" -> Url("https", "docs.mparticle.com", 0)
    [] cdp = "lytics" -> Url("https", "docs.lytics.com", 0)
    [] cdp = "zeotap" -> Url("https", "docs.zeotap.com", 0)

\* urlparse(url).netloc
Netloc(url) == url.netloc

\* ------------------------------------------------------------ crawler
\* An href of an <a> element: "root" starts with '/', "http" starts with
\* 'http' (its netloc is "" when it is no absolute URL at all, as in
\* "http-api.html"), "bad" starts with 'http' and makes urlparse raise
\* ValueError (as "http://[docs" does), "other" is anything else (fragment,
\* javascript:, relative).
Href(kind, scheme, netloc, path) ==
  [kind |-> kind, scheme |-> scheme, netloc |-> netloc, path |-> path]

\* What the fetch and parse of one URL yield.  status is "raise" (requests.get
\* or the parse raised), "non200" or "ok".
Page(status, hasTitle, words, chars, links) ==
  [status |-> status, hasTitle |-> hasTitle, words |-> words, chars |-> chars,
   links |-> links]

\* Lines 336, 340, 342-344: hrefs that are neither root-relative nor
\* http-prefixed are skipped.
IsFollowable(href) == href.kind = "root" \/ href.kind = "http"

\* Lines 336-341: the absolute URL of a followable href.
NormalizeHref(href, base_url) ==
  IF href.kind = "root"
    THEN Url(base_url.scheme, base_url.netloc, href.path)
    ELSE Url(href.scheme, href.netloc, href.path)

\* SameDomain without the comparison of line 347: every link is followed.
SameDomain_Any(next_url, base_url) == TRUE

\* Line 347: only follow links to the same domain.
SameDomain(next_url, base_url) == Netloc(next_url) = Netloc(base_url)

\* IsNew without the second test of line 348: queued URLs are appended again.
IsNew_VisitedOnly(next_url, visited_urls, urls_to_visit) ==
  next_url \notin visited_urls

\* IsNew without the first test of line 348: visited URLs are queued again.
IsNew_QueuedOnly(next_url, visited_urls, urls_to_visit) ==
  next_url \notin Range(urls_to_visit)

\* Line 348: neither visited nor queued.
IsNew(next_url, visited_urls, urls_to_visit) ==
  next_url \notin visited_urls /\ next_url \notin Range(urls_to_visit)

\* Lines 332-349: the frontier after the links of one page were looked at.
\* urlparse raising at line 347 ends the loop of line 332: the handler of line
\* 351 is outside it.
RECURSIVE EnqueueLinks(_, _, _, _)
EnqueueLinks(links, urls_to_visit, visited_urls, base_url) ==
  IF links = <<>> THEN urls_to_visit
  ELSE IF Head(links).kind = "bad" THEN urls_to_visit
  ELSE LET next_url == NormalizeHref(Head(links), base_url)
           queue == IF IsFollowable(Head(links))
                       /\ SameDomain(next_url, base_url)
                       /\ IsNew(next_url, visited_urls, urls_to_visit)
                      THEN Append(urls_to_visit, next_url)
                      ELSE urls_to_visit
       IN EnqueueLinks(Tail(links), queue, visited_urls, base_url)

\* Lines 301, 322-327: the document of a page.  content is the length of the
\* text kept; synthetic is what doc.get('synthetic', False) yields, the dict
\* having no such key.
Document(page, current_url, cdp) ==
  [title |-> IF page.hasTitle THEN "Title" ELSE "Untitled",
   url |-> current_url,
   content |-> Min(page.chars, max_content),
   cdp |-> cdp,
   synthetic |-> FALSE]

\* TooShort without the test of line 318: every page is kept.
TooShort_Never(page) == FALSE

\* Line 318: skip pages with little or no content.
TooShort(page) == page.words < min_words

\* Lines 272-280: the state of a crawl before the loop.  fetched is the log of
\* the requests.get calls made, skipped whether line 286 was ever reached.
ScrapeInit(base_url) ==
  [documents |-> <<>>, visited_urls |-> {}, urls_to_visit |-> <<base_url>>,
   count |-> 0, fetched |-> <<>>, skipped |-> FALSE]

\* LoopCond with <= for <: one page more than the ceiling.
LoopCond_OffByOne(st) == st.urls_to_visit # <<>> /\ st.count <= max_pages

\* Line 282: the loop condition.
LoopCond(st) == st.urls_to_visit # <<>> /\ st.count < max_pages

\* ScrapeIteration without the handler of lines 351-352: an exception ends the
\* call, and with it the documents collected.
ScrapeIteration_Abort(st, page, cdp, base_url) ==
  LET current_url == Head(st.urls_to_visit)
      st1 == [st EXCEPT !.urls_to_visit = Tail(st.urls_to_visit),
                        !.visited_urls = @ \cup {current_url},
                        !.count = @ + 1,
                        !.fetched = Append(@, current_url)]
  IN IF page.status = "raise"
       THEN [st1 EXCEPT !.urls_to_visit = <<>>, !.documents = <<>>]
       ELSE IF page.status # "ok" \/ TooShort(page)
         THEN st1
         ELSE [st1 EXCEPT
                 !.documents = Append(@, Document(page, current_url, cdp)),
                 !.urls_to_visit = EnqueueLinks(page.links, @,
                                                st1.visited_urls, base_url)]

\* Lines 283-352: one iteration of the loop, page being what the fetch of
\* current_url yields.
ScrapeIteration(st, page, cdp, base_url) ==
  LET current_url == Head(st.urls_to_visit)
      popped == [st EXCEPT !.urls_to_visit = Tail(st.urls_to_visit)]
  IN IF current_url \in st.visited_urls
       THEN [popped EXCEPT !.skipped = TRUE]
       ELSE LET st1 == [popped EXCEPT !.visited_urls = @ \cup {current_url},
                                      !.count = @ + 1,
                                      !.fetched = Append(@, current_url)]
            IN IF page.status # "ok" \/ TooShort(page)
                 THEN st1
                 ELSE [st1 EXCEPT
                         !.documents = Append(@, Document(page, current_url, cdp)),
                         !.urls_to_visit = EnqueueLinks(page.links, @,
                                                        st1.visited_urls, base_url)]

\* ------------------------------------------------------------ sites
\* The sites a seed URL may lead to: "down" (every fetch raises), "single" (a
\* seed page with foreign links only, every other URL 404), "chain" (page n
\* links to itself, to page n + 1 and to the seed, without end).
Sites == {"down", "single", "chain"}

SitePage(site, url, base_url) ==
  CASE site = "down" -> Page("raise", FALSE, 0, 0, <<>>)
    [] site = "single" ->
         IF url = base_url
           THEN Page("ok", TRUE, min_words, 120,
                     <<Href("http", "https", "other.example", 1), Href("other", "", "", 1)>>)
           ELSE Page("non200", FALSE, 0, 0, <<>>)
    [] site = "chain" ->
         Page("ok", TRUE, min_words, 120,
              <<Href("root", "", "", url.path), Href("root", "", "", url.path + 1),
                Href("http", base_url.scheme, base_url.netloc, 0)>>)

\* Lines 282-355 run to the end on a site: site(url) is the page the fetch of
\* url yields.
RECURSIVE ScrapeRun(_, _, _, _)
ScrapeRun(st, site, cdp, base_url) ==
  IF LoopCond(st)
    THEN ScrapeRun(ScrapeIteration(st, SitePage(site, Head(st.urls_to_visit), base_url),
                                   cdp, base_url),
                   site, cdp, base_url)
    ELSE st

\* scrape_documentation(cdp, base_url) on a site (lines 270-355).
scrape_documentation(cdp, base_url, site) ==
  ScrapeRun(ScrapeInit(base_url), site, cdp, base_url).documents

\* ------------------------------------------------------------ cache store
\* json.dump(all_docs[cdp], f): the array of objects, each the values of the
\* keys title, url, content, cdp in the order the crawler inserted them.
JsonDump(docs) ==
  [i \in DOMAIN docs |-> <<docs[i].title, docs[i].url, docs[i].content, docs[i].cdp>>]

\* json.load(f): the list of dicts of a cache file.
JsonLoad(text) ==
  [i \in DOMAIN text |->
     [title |-> text[i][1], url |-> text[i][2], content |-> text[i][3],
      cdp |-> text[i][4], synthetic |-> FALSE]]

\* What scrape_documentation returns for each platform on each site.
ScrapeResult ==
  [cdp \in Cdps |-> [site \in Sites |-> scrape_documentation(cdp, cdps(cdp), site)]]

\* A cache file: whether it exists, whether it holds a JSON text ("json") or
\* the beginning of one or none at all ("partial", as between open(.., 'w')
\* and the end of json.dump), and the array the JSON text stands for.
NoFile == [exists |-> FALSE, form |-> "json", text |-> <<>>]

File(text) == [exists |-> TRUE, form |-> "json", text |-> text]

PartialFile == [exists |-> TRUE, form |-> "partial", text |-> <<>>]

\* LoadOne without the os.path.exists test of line 257: it always scrapes.
LoadOne_AlwaysScrape(cdp, file, site) ==
  LET docs == ScrapeResult[cdp][site]
  IN [docs |-> docs, file |-> File(JsonDump(docs)), scrapes |-> 1, writes |-> 1]

\* LoadOne without the json.dump of lines 265-266: the result is not saved.
LoadOne_NoSave(cdp, file, site) ==
  IF file.exists
    THEN [docs |-> JsonLoad(file.text), file |-> file, scrapes |-> 0, writes |-> 0]
    ELSE [docs |-> ScrapeResult[cdp][site], file |-> file, scrapes |-> 1, writes |-> 0]

\* Lines 255-266: one round of the loop of load_documentation, for the platform
\* cdp, its cache file and the site its seed URL leads to.  scrapes and writes
\* count the calls of scrape_documentation and the writes of the file.
LoadOne(cdp, file, site) ==
  IF file.exists
    THEN [docs |-> JsonLoad(file.text), file |-> file, scrapes |-> 0, writes |-> 0]
    ELSE LET docs == ScrapeResult[cdp][site]
         IN [docs |-> docs, file |-> File(JsonDump(docs)), scrapes |-> 1, writes |-> 1]

\* ------------------------------------------------------------ relevance selector
\* A query is modelled by the terms of cdp_terms (line 64) that occur in its
\* lower-cased text; the platform names are among them.
CdpTerms == {"cdp", "customer data", "segment", "mparticle", "lytics", "zeotap"}

\* s[:n]
Take(s, n) == SubSeq(s, 1, Min(n, Len(s)))

\* Lines 78-82 and 360-364: the first platform, in the order of self.cdps,
\* whose name occurs in the query; "none" stands for None.
RECURSIVE FirstNamed(_, _)
FirstNamed(names, query) ==
  IF names = <<>> THEN "none"
  ELSE IF Head(names) \in query THEN Head(names)
  ELSE FirstNamed(Tail(names), query)

IdentifyCdp(query) == FirstNamed(CdpNames, query)

\* Lines 372-373: the first five documents of every platform, concatenated in
\* the order of self.documentation.
RECURSIVE TopOfEach(_, _)
TopOfEach(names, documentation) ==
  IF names = <<>> THEN <<>>
  ELSE Take(documentation[Head(names)], per_cdp) \o TopOfEach(Tail(names), documentation)

\* Lines 367-373: docs_to_search.
DocsToSearch(cdp, documentation) ==
  IF cdp # "none" THEN documentation[cdp] ELSE TopOfEach(CdpNames, documentation)

\* cdp.capitalize() + " Documentation"
SyntheticTitle(cdp) ==
  CASE cdp = "segment" -> "Segment Documentation"
    [] cdp = "mparticle" -> "Mparticle Documentation"
    [] cdp = "lytics" -> "Lytics Documentation"
    [] cdp = "zeotap" -> "Zeotap Documentation"

\* len(cdp)
NameLen(cdp) ==
  CASE cdp = "segment" -> 7
    [] cdp = "mparticle" -> 9
    [] cdp = "lytics" -> 6
    [] cdp = "zeotap" -> 6

\* SyntheticDoc without the mark of line 385.
SyntheticDoc_Unmarked(cdp) ==
  [title |-> SyntheticTitle(cdp), url |-> cdps(cdp), content |-> 84 + NameLen(cdp),
   cdp |-> cdp, synthetic |-> FALSE]

\* Lines 380-386: the placeholder document of a platform without documents.
SyntheticDoc(cdp) ==
  [title |-> SyntheticTitle(cdp), url |-> cdps(cdp), content |-> 84 + NameLen(cdp),
   cdp |-> cdp, synthetic |-> TRUE]

\* One comma-separated piece of the ranking reply: int is whether int() accepts
\* it, val the integer it yields.
Token(int, val) == [int |-> int, val |-> val]

\* Line 425: the documents at the indices of the reply that are in range, in
\* the reply's order.
RECURSIVE PickDocs(_, _)
PickDocs(indices, docs_limited) ==
  IF indices = <<>> THEN <<>>
  ELSE LET idx == Head(indices).val
           rest == PickDocs(Tail(indices), docs_limited)
       IN IF 0 <= idx /\ idx < Len(docs_limited)
            THEN <<docs_limited[idx + 1]>> \o rest
            ELSE rest

\* Lines 421-429: the reply parsed; any piece int() rejects raises ValueError
\* and the first three documents are returned.
ParseReply(reply, docs_limited) ==
  IF \E i \in DOMAIN reply : ~reply[i].int
    THEN Take(docs_limited, Min(top_k, Len(docs_limited)))
    ELSE PickDocs(reply, docs_limited)

\* NoCandidates without lines 378-387: no placeholder is made up.
NoCandidates_NoPlaceholder(cdp) == [docs |-> <<>>, rank |-> 0]

\* Lines 376-388: no documents to search through.
NoCandidates(cdp) ==
  [docs |-> IF cdp # "none" THEN <<SyntheticDoc(cdp)>> ELSE <<>>, rank |-> 0]

\* RankingFailed with an empty list for lines 431-434.
RankingFailed_Empty(docs_to_search) == [docs |-> <<>>, rank |-> 1]

\* Lines 431-434: the completion call raised.
RankingFailed(docs_to_search) ==
  [docs |-> Take(docs_to_search, Min(top_k, Len(docs_to_search))), rank |-> 1]

\* Lines 357-434: find_relevant_documents.  ranking is "raise" when the
\* completion call raises, reply are the pieces of its reply otherwise.  docs
\* is the list returned, rank the number of completion calls made.
find_relevant_documents(query, cdp_arg, documentation, ranking, reply) ==
  LET cdp == IF cdp_arg = "none" THEN IdentifyCdp(query) ELSE cdp_arg
      docs_to_search == DocsToSearch(cdp, documentation)
      docs_limited == Take(docs_to_search, max_docs)
  IN IF docs_to_search = <<>>
       THEN NoCandidates(cdp)
       ELSE IF ranking = "raise"
         THEN RankingFailed(docs_to_search)
         ELSE [docs |-> ParseReply(reply, docs_limited), rank |-> 1]

\* ------------------------------------------------------------ answer composer
\* is_cdp_related answering True when the call raises, without lines 64-65.
is_cdp_related_FailOpen(query, classifier) == classifier # "no"

\* Lines 42-65: is_cdp_related.  classifier is "yes" when the reply contains
\* 'yes', "no" when it does not, "raise" when the call raises.
is_cdp_related(query, classifier) ==
  IF classifier = "raise" THEN query \cap CdpTerms # {}
  ELSE classifier = "yes"

\* Line 88: any(doc.get('synthetic', False) for doc in relevant_docs)
HasSynthetic(docs) == \E i \in DOMAIN docs : docs[i].synthetic

\* Line 99: the question goes to the model without documentation context.
UseDirect(docs) == HasSynthetic(docs) \/ Len(docs) < 2

Urls(docs) == [i \in DOMAIN docs |-> docs[i].url]

\* Lines 205-208: doc['cdp'] raises KeyError for a cached object without that
\* key ("absent"), outside any try.
ContextRaises(docs) == \E i \in DOMAIN docs : docs[i].cdp = "absent"

Response(source, cdp, urls) == [source |-> source, cdp |-> cdp, urls |-> urls]

\* Lines 67-248: answer_question.  generation is "raise" when the completion
\* call of lines 182 or 227 raises.  response is the dict returned (cdp
\* "absent" and urls <<>> standing for a missing key; source "raise" when the
\* call raises instead of returning), docs the relevant_docs of line 85, calls
\* the completion calls made.
answer_question(query, documentation, classifier, ranking, reply, generation) ==
  IF ~is_cdp_related(query, classifier)
    THEN [response |-> Response("off-topic", "absent", <<>>), docs |-> <<>>,
          calls |-> [classify |-> 1, rank |-> 0, generate |-> 0]]
    ELSE
      LET identified_cdp == IdentifyCdp(query)
          found == find_relevant_documents(query, identified_cdp, documentation,
                                           ranking, reply)
          docs == found.docs
      IN IF docs = <<>>
           THEN [response |-> Response("no-docs", "absent", <<>>), docs |-> docs,
                 calls |-> [classify |-> 1, rank |-> found.rank, generate |-> 0]]
           ELSE IF ~UseDirect(docs) /\ ContextRaises(docs)
             THEN [response |-> Response("raise", "absent", <<>>), docs |-> docs,
                   calls |-> [classify |-> 1, rank |-> found.rank, generate |-> 0]]
             ELSE [response |->
                     IF generation = "raise" THEN Response("error", "absent", <<>>)
                     ELSE IF UseDirect(docs)
                       THEN Response("direct-groq", identified_cdp, <<>>)
                       ELSE Response("doc-based", identified_cdp, Urls(docs)),
                   docs |-> docs,
                   calls |-> [classify |-> 1, rank |-> found.rank, generate |-> 1]]

\* ------------------------------------------------------------ state
VARIABLES
  crawl,        \* the locals of the running scrape_documentation call
  crawl_cdp,    \* its cdp argument (base_url is cdps(crawl_cdp))
  crawl_pc,     \* "loop" at line 282, "done" after line 355
  seed_page,    \* history: the summary of the page fetched for the seed
  relinked,     \* history: some page linked to a visited or queued URL
  last_page,    \* history, kept when on: the URL popped by the last iteration,
                \* the page its fetch yielded (for its links, the URLs new to
                \* the crawl they lead to) and the status of the fetch before
  files,        \* the cache directory: per platform, its <cdp>_docs.json
  agent,        \* the CDPSupportAgent of the process, if constructed
  last_load,    \* history: per platform, the crawls and file writes of the last
                \* load_documentation, and the crawls of the one before it
  loads,        \* history: the number of load_documentation calls
  deletes,      \* history: the number of cache files deleted from outside
  request,      \* the last question asked and what the external calls did
  relevant_docs,\* answer_question's relevant_docs (line 85) for that question
  response,     \* what answer_question returned for it
  calls,        \* the external completion calls made for it, per purpose
  credential,   \* whether GROQ_API_KEY is set in the server's environment
  threaded,     \* whether the server handles requests concurrently
  web,          \* per platform, the site its seed URL leads to during the run
  thr,          \* per server thread, where it is in its request and its locals
  http,         \* per server thread, the response to its last request
  stats         \* history: requests received, constructors started and
                \* finished, per platform the crawls and cache writes, reads
                \* of a file another thread was writing

crawlVars == <<crawl, crawl_cdp, crawl_pc, seed_page, relinked, last_page>>

loadVars == <<files, agent, last_load, loads, deletes>>

askVars == <<request, relevant_docs, response, calls>>

serveVars == <<credential, threaded, web, thr, http, stats>>

vars == <<crawl, crawl_cdp, crawl_pc, seed_page, relinked, last_page,
          files, agent, last_load, loads, deletes,
          request, relevant_docs, response, calls,
          credential, threaded, web, thr, http, stats>>

\* ------------------------------------------------------------ the site crawled
\* The paths of the seed's domain the crawl has seen so far.
KnownPaths(st) == {u.path : u \in st.visited_urls \cup Range(st.urls_to_visit)}

\* The smallest path outside S: with S the known paths, a URL not seen before.
FreshPath(S) == CHOOSE p \in 0..Cardinality(S) :
                  p \notin S /\ \A q \in 0..Cardinality(S) : q \notin S => p <= q

\* Links to pages of the seed's domain not seen before, offered only while
\* fewer than MaxFrontier URLs are pending: a root-relative and an absolute one.
NewHrefs(st, base_url) ==
  LET fresh == FreshPath(KnownPaths(st))
      fresh2 == FreshPath(KnownPaths(st) \cup {fresh})
  IN IF Len(st.urls_to_visit) - 1 < MaxFrontier
       THEN <<Href("root", "", "", fresh),
              Href("http", base_url.scheme, base_url.netloc, fresh2)>>
       ELSE <<>>

\* The hrefs a page fetched in state st may carry: links to itself (both
\* spellings), to the seed, to the last queued page, to new pages of the
\* domain, to another domain, an http-prefixed relative path, an http-prefixed string
\* urlparse rejects and a fragment.
HrefChoices(st, base_url) ==
  LET current_url == Head(st.urls_to_visit)
      rest == Tail(st.urls_to_visit)
  IN {Href("root", "", "", current_url.path),
      Href("root", "", "", 0),
      Href("http", base_url.scheme, base_url.netloc, current_url.path),
      Href("http", "https", "other.example", 1),
      Href("http", "", "", 1),
      Href("bad", "", "", 1),
      Href("other", "", "", 1)}
     \cup (IF rest = <<>> THEN {}
           ELSE {Href("root", "", "", rest[Len(rest)].path)})
     \cup Range(NewHrefs(st, base_url))

\* The link lists of the pages fetched after the first RichWindow ones: none,
\* or a self-link followed by no, one or two new pages.
LateLinkLists(st, base_url) ==
  LET self == Href("root", "", "", Head(st.urls_to_visit).path)
      new == NewHrefs(st, base_url)
  IN {<<>>, <<self>>} \cup
     (IF new = <<>> THEN {} ELSE {<<self, new[1]>>, <<self>> \o new})

\* The link lists a page fetched in state st may carry.
LinkLists(st, base_url) ==
  IF st.urls_to_visit = <<>> THEN {}
  ELSE IF st.count < RichWindow
    THEN SeqsUpTo(HrefChoices(st, base_url), MaxLinks)
    ELSE LateLinkLists(st, base_url)

\* A link that cannot lead to the seed's domain: it is cross-domain, or neither
\* root-relative nor http-prefixed.
IsForeign(href, base_url) ==
  \/ href.kind = "other"
  \/ href.kind = "http" /\ href.netloc # base_url.netloc

\* What is remembered of a seed page that was parsed and whose links were all
\* foreign: its words and the number of its links.  Other seed pages are
\* remembered as "local".
PageSummary(page, base_url) ==
  IF page.status = "ok" /\ \A i \in DOMAIN page.links : IsForeign(page.links[i], base_url)
    THEN [links |-> "foreign", words |-> page.words, nlinks |-> Len(page.links)]
    ELSE [links |-> "local", words |-> 0, nlinks |-> 0]

\* The links the loop of line 332 gets to: those before the first one on which
\* urlparse raises.
RECURSIVE LinksRead(_)
LinksRead(links) ==
  IF links = <<>> \/ Head(links).kind = "bad" THEN <<>>
  ELSE <<Head(links)>> \o LinksRead(Tail(links))

\* A page whose links were looked at and that links to a URL the crawl has
\* already visited (itself included) or queued.
LinksBack(st, page, base_url) ==
  /\ page.status = "ok" /\ page.words >= min_words
  /\ \E i \in DOMAIN LinksRead(page.links) :
       /\ page.links[i].kind \in {"root", "http"}
       /\ LET u == IF page.links[i].kind = "root"
                     THEN Url(base_url.scheme, base_url.netloc, page.links[i].path)
                     ELSE Url(page.links[i].scheme, page.links[i].netloc,
                              page.links[i].path)
          IN u \in st.visited_urls \cup Range(st.urls_to_visit)

\* The URL a link leads to is u, a URL of the seed's domain.
LeadsTo(href, u, base_url) ==
  /\ IsFollowable(href)
  /\ NormalizeHref(href, base_url) = u
  /\ Netloc(u) = Netloc(base_url)

\* The URLs of the seed's domain, neither visited nor queued, that the links of
\* a page fetched in state st lead to.
NewTargets(st, page, base_url) ==
  {u \in {NormalizeHref(page.links[i], base_url) : i \in DOMAIN page.links} :
     /\ \E i \in DOMAIN page.links : LeadsTo(page.links[i], u, base_url)
     /\ u \notin st.visited_urls \cup Range(st.urls_to_visit)}

\* ------------------------------------------------------------ idle parts
\* No iteration has run yet.
NoPage(on) ==
  [on |-> on, url |-> cdps("segment"), page |-> Page("none", FALSE, 0, 0, <<>>),
   targets |-> {}, prev |-> "none"]

\* No crawl is being stepped through.
CrawlIdle ==
  /\ crawl_cdp = "segment"
  /\ crawl = ScrapeInit(cdps("segment"))
  /\ crawl_pc = "idle"
  /\ seed_page = [links |-> "unfetched", words |-> 0, nlinks |-> 0]
  /\ relinked = FALSE
  /\ last_page = NoPage(FALSE)

NoAgent == [alive |-> FALSE, documentation |-> [p \in Cdps |-> <<>>]]

\* No agent, an empty cache directory.
LoadIdle ==
  /\ files = [p \in Cdps |-> NoFile]
  /\ agent = NoAgent
  /\ last_load = [p \in Cdps |-> [scrapes |-> 0, writes |-> 0, before |-> 0]]
  /\ loads = 0
  /\ deletes = 0

NoCalls == [classify |-> 0, rank |-> 0, generate |-> 0]

\* No question has been asked.
AskIdle ==
  /\ request = [asked |-> FALSE, query |-> {}, classifier |-> "none",
                ranking |-> "none", reply |-> <<>>, generation |-> "none"]
  /\ relevant_docs = <<>>
  /\ response = [source |-> "none", cdp |-> "absent", urls |-> <<>>]
  /\ calls = NoCalls

\* The threads of the server.
Threads == {1, 2}

\* A thread between requests.  question is the body of a POST to /ask, phase
\* the caller of the running constructor, i the place in self.cdps of the
\* platform load_documentation is at, all_docs its local of that name, docs
\* the list scrape_documentation returned for that platform.
IdleThread ==
  [pc |-> "idle", endpoint |-> "none", question |-> [form |-> "none", query |-> {}],
   phase |-> "none", i |-> 1, all_docs |-> [p \in Cdps |-> <<>>], docs |-> <<>>]

\* No answer_question call was made.
NoAnswer ==
  [response |-> Response("none", "absent", <<>>), docs |-> <<>>, calls |-> NoCalls,
   query |-> {}, classifier |-> "none", ranking |-> "none", generation |-> "none"]

\* The JSON body of a response: of /status with status and, if error, an
\* error field; of /ask with answer.response as its answer object (the rest of
\* answer is history: the question, the selection and the external calls).
\* kind is "json" for such a body, "exception" when no handler answered.
HttpResponse(endpoint, kind, status, error, answer) ==
  [sent |-> TRUE, endpoint |-> endpoint, kind |-> kind, status |-> status,
   error |-> error, answer |-> answer]

\* No response was sent.
NoResponse ==
  [sent |-> FALSE, endpoint |-> "none", kind |-> "none", status |-> "none",
   error |-> FALSE, answer |-> NoAnswer]

NoStats ==
  [requests |-> 0, started |-> 0, constructed |-> 0,
   scrapes |-> [p \in Cdps |-> 0], writes |-> [p \in Cdps |-> 0], torn |-> FALSE]

\* No server is running.
ServeIdle ==
  /\ credential = FALSE
  /\ threaded = FALSE
  /\ web = [p \in Cdps |-> "down"]
  /\ thr = [t \in Threads |-> IdleThread]
  /\ http = [t \in Threads |-> NoResponse]
  /\ stats = NoStats

\* ------------------------------------------------------------ crawl actions
InitCrawl ==
  /\ LoadIdle
  /\ AskIdle
  /\ ServeIdle
  /\ crawl_cdp \in {"segment", "zeotap"}
  /\ crawl = ScrapeInit(cdps(crawl_cdp))
  /\ crawl_pc = "loop"
  /\ seed_page = [links |-> "unfetched", words |-> 0, nlinks |-> 0]
  /\ relinked = FALSE
  /\ last_page = NoPage(FALSE)

\* One iteration of the loop of scrape_documentation on the given page.
Iterate(page, isOdd) ==
  /\ crawl_pc = "loop"
  /\ LoopCond(crawl)
  /\ isOdd => crawl.count < RichWindow
  /\ crawl' = ScrapeIteration(crawl, page, crawl_cdp, cdps(crawl_cdp))
  /\ seed_page' = IF crawl.fetched = <<>>
                    THEN PageSummary(page, cdps(crawl_cdp)) ELSE seed_page
  /\ relinked' = (relinked \/ LinksBack(crawl, page, cdps(crawl_cdp)))
  /\ last_page' = IF last_page.on
                     THEN [on |-> TRUE, url |-> Head(crawl.urls_to_visit),
                           page |-> [page EXCEPT !.links = <<>>],
                           targets |-> NewTargets(crawl, page, cdps(crawl_cdp)),
                           prev |-> last_page.page.status]
                     ELSE last_page
  /\ UNCHANGED <<crawl_cdp, crawl_pc>>
  /\ UNCHANGED loadVars
  /\ UNCHANGED askVars
  /\ UNCHANGED serveVars

\* requests.get or the parse raises (lines 293, 298, 351-352).
FetchRaises ==
  /\ crawl_pc = "loop"
  /\ Iterate(Page("raise", FALSE, 0, 0, <<>>), TRUE)

\* status_code != 200 (lines 294-296).
FetchNon200 ==
  /\ crawl_pc = "loop"
  /\ Iterate(Page("non200", FALSE, 0, 0, <<>>), TRUE)

\* A page of fewer than 20 words (lines 318-319), whatever its links.
PageTooShort ==
  /\ crawl_pc = "loop"
  /\ LoopCond(crawl)
  /\ \E links \in LinkLists(crawl, cdps(crawl_cdp)) :
       Iterate(Page("ok", TRUE, min_words - 1, 100, links), TRUE)

\* A page without a title whose content is longer than 8000 characters.
PageLong ==
  /\ crawl_pc = "loop"
  /\ LoopCond(crawl)
  /\ \E links \in LinkLists(crawl, cdps(crawl_cdp)) :
       Iterate(Page("ok", FALSE, 2000, max_content + 1, links), TRUE)

\* A plain page without links: 200, a title, 20 words.
PageNoLinks ==
  /\ crawl_pc = "loop"
  /\ Iterate(Page("ok", TRUE, min_words, 120, <<>>), FALSE)

\* A plain page with links.
PagePlain ==
  /\ crawl_pc = "loop"
  /\ LoopCond(crawl)
  /\ \E links \in LinkLists(crawl, cdps(crawl_cdp)) \ {<<>>} :
       Iterate(Page("ok", TRUE, min_words, 120, links), FALSE)

\* Lines 282, 354-355: the loop condition fails and the documents are returned.
ScrapeReturn ==
  /\ crawl_pc = "loop"
  /\ ~LoopCond(crawl)
  /\ crawl_pc' = "done"
  /\ UNCHANGED <<crawl, crawl_cdp, seed_page, relinked, last_page>>
  /\ UNCHANGED loadVars
  /\ UNCHANGED askVars
  /\ UNCHANGED serveVars

NextCrawl ==
  \/ PageNoLinks
  \/ FetchRaises
  \/ FetchNon200
  \/ PageTooShort
  \/ PageLong
  \/ PagePlain
  \/ ScrapeReturn

SpecCrawl == InitCrawl /\ [][NextCrawl]_vars

\* The crawl of a platform with the history of its last iteration kept.
InitCrawlLog ==
  /\ LoadIdle
  /\ AskIdle
  /\ ServeIdle
  /\ crawl_cdp \in {"segment", "zeotap"}
  /\ crawl = ScrapeInit(cdps(crawl_cdp))
  /\ crawl_pc = "loop"
  /\ seed_page = [links |-> "unfetched", words |-> 0, nlinks |-> 0]
  /\ relinked = FALSE
  /\ last_page = NoPage(TRUE)

SpecCrawlLog == InitCrawlLog /\ [][NextCrawl]_vars

FairSpecCrawl == SpecCrawl /\ WF_vars(NextCrawl)

\* ------------------------------------------------------------ load actions
\* The lists scrape_documentation can return for a platform.
CrawlResults(cdp) == {ScrapeResult[cdp][site] : site \in Sites}

\* The process starts with a cache directory earlier runs may have filled.
InitLoad ==
  /\ CrawlIdle
  /\ AskIdle
  /\ ServeIdle
  /\ files \in [Cdps -> {NoFile}] \cup
               {[p \in Cdps |-> IF p \in S THEN File(JsonDump(r[p])) ELSE NoFile] :
                  S \in SUBSET Cdps \ {{}},
                  r \in {[p \in Cdps |-> ScrapeResult[p][site]] : site \in Sites}}
  /\ agent = NoAgent
  /\ last_load = [p \in Cdps |-> [scrapes |-> 0, writes |-> 0, before |-> 0]]
  /\ loads = 0
  /\ deletes = 0

\* The platforms without a cache file.
Missing == {cdp \in Cdps : ~files[cdp].exists}

\* Lines 250-268: load_documentation, sites[cdp] being the site the seed URL of
\* a platform without cache file leads to at the time.
load_documentation(sites) ==
  [cdp \in Cdps |-> LoadOne(cdp, files[cdp],
                            IF cdp \in Missing THEN sites[cdp] ELSE "down")]

\* CDPSupportAgent(api_key) (lines 20-40): the constructor loads or scrapes the
\* documentation of every platform.
Construct ==
  /\ loads < MaxLoads
  /\ \E sites \in [Missing -> Sites] :
       LET all_docs == load_documentation(sites)
       IN /\ agent' = [alive |-> TRUE,
                       documentation |-> [cdp \in Cdps |-> all_docs[cdp].docs]]
          /\ files' = [cdp \in Cdps |-> all_docs[cdp].file]
          /\ last_load' = [cdp \in Cdps |->
                             [scrapes |-> all_docs[cdp].scrapes,
                              writes |-> all_docs[cdp].writes,
                              before |-> last_load[cdp].scrapes]]
  /\ loads' = loads + 1
  /\ UNCHANGED deletes
  /\ UNCHANGED crawlVars
  /\ UNCHANGED askVars
  /\ UNCHANGED serveVars

\* A cache file is deleted from outside the program.
DeleteFile ==
  /\ deletes < MaxDeletes
  /\ \E cdp \in Cdps :
       /\ files[cdp].exists
       /\ files' = [files EXCEPT ![cdp] = NoFile]
  /\ deletes' = deletes + 1
  /\ UNCHANGED <<agent, last_load, loads>>
  /\ UNCHANGED crawlVars
  /\ UNCHANGED askVars
  /\ UNCHANGED serveVars

NextLoad ==
  \/ Construct
  \/ DeleteFile

SpecLoad == InitLoad /\ [][NextLoad]_vars

\* ------------------------------------------------------------ ask actions
\* The questions asked: "What's the weather today?", "How do I set up a new
\* source in Segment?", "What is a CDP?", "mParticle or Lytics?", "Which
\* customer data does Zeotap hold?" and "Segment or Zeotap?".
Queries ==
  {{}, {"segment"}, {"cdp"}, {"mparticle", "lytics"}, {"zeotap", "customer data"},
   {"segment", "zeotap"}}

\* The pieces of a ranking reply: -1, 0, 19, 20 and one that is no integer.
Tokens ==
  {Token(TRUE, -1), Token(TRUE, 0), Token(TRUE, max_docs - 1), Token(TRUE, max_docs),
   Token(FALSE, 0)}

\* The replies of the ranking call: "a,b,c" has three pieces, "" has one.
Replies == UNION {[1..k -> Tokens] : k \in 1..MaxReply}

\* The agent was constructed on an empty cache directory: segment led to some
\* site, the three other platforms to sites of one kind.
InitAnswer ==
  /\ CrawlIdle
  /\ AskIdle
  /\ ServeIdle
  /\ \E s1, s2 \in Sites :
       LET sites == [cdp \in Cdps |-> IF cdp = "segment" THEN s1 ELSE s2]
           all_docs == [cdp \in Cdps |-> LoadOne(cdp, NoFile, sites[cdp])]
       IN /\ agent = [alive |-> TRUE,
                      documentation |-> [cdp \in Cdps |-> all_docs[cdp].docs]]
          /\ files = [cdp \in Cdps |-> all_docs[cdp].file]
          /\ last_load = [cdp \in Cdps |->
                            [scrapes |-> all_docs[cdp].scrapes,
                             writes |-> all_docs[cdp].writes, before |-> 0]]
  /\ loads = 1
  /\ deletes = 0

\* agent.answer_question(question) (line 848) on the agent's documentation.
Ask(query, classifier, ranking, reply, generation) ==
  /\ agent.alive
  /\ ~request.asked
  /\ LET answer == answer_question(query, agent.documentation, classifier,
                                   ranking, reply, generation)
     IN /\ response' = answer.response
        /\ relevant_docs' = answer.docs
        /\ calls' = answer.calls
        /\ request' = [asked |-> TRUE, query |-> query, classifier |-> classifier,
                       ranking |-> IF answer.calls.rank = 0 THEN "none" ELSE ranking,
                       reply |-> IF answer.calls.rank = 0 \/ ranking = "raise"
                                   THEN <<>> ELSE reply,
                       generation |-> IF answer.calls.generate = 0 THEN "none"
                                      ELSE generation]
  /\ UNCHANGED crawlVars
  /\ UNCHANGED loadVars
  /\ UNCHANGED serveVars

Classifiers == {"yes", "no", "raise"}

Generations == {"ok", "raise"}

\* The candidates of a question: docs_to_search of line 367.
Candidates(query) == DocsToSearch(IdentifyCdp(query), agent.documentation)

\* A question the topical gate turns away.
AskOffTopic ==
  /\ ~request.asked
  /\ \E query \in Queries, classifier \in Classifiers :
       /\ ~is_cdp_related(query, classifier)
       /\ Ask(query, classifier, "reply", <<Token(TRUE, 0)>>, "ok")

\* A question without candidate documents: no ranking call is due.
AskNoCandidates ==
  /\ ~request.asked
  /\ \E query \in Queries, classifier \in Classifiers, generation \in Generations :
       /\ is_cdp_related(query, classifier)
       /\ Candidates(query) = <<>>
       /\ Ask(query, classifier, "reply", <<Token(TRUE, 0)>>, generation)

\* A question whose ranking call raises.
AskRankingRaises ==
  /\ ~request.asked
  /\ \E query \in Queries, classifier \in Classifiers, generation \in Generations :
       /\ is_cdp_related(query, classifier)
       /\ Candidates(query) # <<>>
       /\ Ask(query, classifier, "raise", <<>>, generation)

\* A question whose ranking call replies.
AskRankingReplies ==
  /\ ~request.asked
  /\ \E query \in Queries, classifier \in Classifiers, generation \in Generations :
       /\ is_cdp_related(query, classifier)
       /\ Candidates(query) # <<>>
       /\ \E reply \in Replies : Ask(query, classifier, "reply", reply, generation)

NextAnswer ==
  \/ AskOffTopic
  \/ AskNoCandidates
  \/ AskRankingRaises
  \/ AskRankingReplies

SpecAnswer == InitAnswer /\ [][NextAnswer]_vars

\* ------------------------------------------------------------ web server
\* The bodies of a POST to /ask: none that parses as a JSON object (request.json
\* raises, or is None), one without question or with an empty one, one with a
\* question.
Questions ==
  {[form |-> "nobody", query |-> {}], [form |-> "empty", query |-> {}]}
    \cup {[form |-> "text", query |-> q] : q \in Queries}

\* The replies of the ranking call tried on the server: "0", "0,19" and "a".
ServeReplies ==
  {<<Token(TRUE, 0)>>, <<Token(TRUE, 0), Token(TRUE, max_docs - 1)>>, <<Token(FALSE, 0)>>}

\* The documents a crawl of the platform's site returns, as cached objects
\* without the key 'cdp'.
NoCdpKey(text) == [i \in DOMAIN text |-> <<text[i][1], text[i][2], text[i][3], "absent">>]

\* The platform load_documentation of thread t is at.
CdpOf(t) == CdpNames[thr[t].i]

\* What the clients of a run send to /ask and what the external calls do
\* then: anything on the server without threads; on the threaded one, whose
\* runs are about the constructor, a question about Segment with every call
\* working and the reply "0,19".
ClientQuestions ==
  IF threaded
    THEN {[form |-> "nobody", query |-> {}], [form |-> "text", query |-> {"segment"}]}
    ELSE Questions

CallOutcomes ==
  IF threaded
    THEN {[classifier |-> "yes", ranking |-> "reply",
           reply |-> <<Token(TRUE, 0), Token(TRUE, max_docs - 1)>>,
           generation |-> "ok"]}
    ELSE [classifier : Classifiers, ranking : {"raise", "reply"},
          reply : ServeReplies, generation : Generations]

\* The requests of one run: MaxRequests, one after the other, on the server
\* without threads; on the threaded one the first request of every thread.
RequestLimit == IF threaded THEN Cardinality(Threads) ELSE MaxRequests

\* A request is received: by the one thread of a server without threads, by
\* any idle thread of a threaded one.  http keeps the responses sent since.
Receive(t) ==
  /\ thr[t].pc = "idle"
  /\ stats.requests < RequestLimit
  /\ threaded \/ t = 1
  /\ \E endpoint \in {"status", "ask"}, question \in ClientQuestions :
       /\ endpoint = "status" => question.form = "nobody"
       /\ thr' = [thr EXCEPT ![t] = [IdleThread EXCEPT !.pc = "before",
                                                     !.endpoint = endpoint,
                                                     !.question = question]]
  /\ http' = [u \in Threads |-> NoResponse]
  /\ stats' = [stats EXCEPT !.requests = @ + 1]
  /\ UNCHANGED <<credential, threaded, web>>
  /\ UNCHANGED crawlVars
  /\ UNCHANGED loadVars
  /\ UNCHANGED askVars

\* The constructor is entered (lines 20-40) by the given caller.
EnterConstructor(t, phase) ==
  /\ thr' = [thr EXCEPT ![t].pc = "check", ![t].phase = phase, ![t].i = 1,
                        ![t].all_docs = [p \in Cdps |-> <<>>], ![t].docs = <<>>]
  /\ stats' = [stats EXCEPT !.started = @ + 1]

\* InitializeAgent with a lock and a test of the global: a request constructs
\* an agent only if there is none and no other thread is constructing one.
InitializeAgent_Once(t) ==
  /\ thr[t].pc = "before"
  /\ \A u \in Threads \ {t} :
       thr[u].pc \notin {"check", "read", "scrape", "open", "dump", "loaded"}
  /\ IF credential /\ ~agent.alive
       THEN EnterConstructor(t, "before")
       ELSE /\ thr' = [thr EXCEPT ![t].pc = "handler"]
            /\ UNCHANGED stats
  /\ UNCHANGED <<credential, threaded, web, http>>
  /\ UNCHANGED crawlVars
  /\ UNCHANGED loadVars
  /\ UNCHANGED askVars

\* initialize_agent (lines 802-814), run before every request: without the
\* credential it only logs, with it it constructs an agent.
InitializeAgent(t) ==
  /\ thr[t].pc = "before"
  /\ IF credential
       THEN EnterConstructor(t, "before")
       ELSE /\ thr' = [thr EXCEPT ![t].pc = "handler"]
            /\ UNCHANGED stats
  /\ UNCHANGED <<credential, threaded, web, http>>
  /\ UNCHANGED crawlVars
  /\ UNCHANGED loadVars
  /\ UNCHANGED askVars

\* Failed without the handlers of lines 835 and 854: the exception leaves the
\* view function.
Failed_Uncaught(endpoint) == HttpResponse(endpoint, "exception", "none", FALSE, NoAnswer)

\* The response of a handler whose try block raised (lines 835-836, 854-856).
Failed(endpoint) ==
  IF endpoint = "status"
    THEN HttpResponse("status", "json", "loading", TRUE, NoAnswer)
    ELSE HttpResponse("ask", "json", "none", FALSE,
                      [NoAnswer EXCEPT !.response = Response("error", "absent", <<>>)])

\* Lines 843-844: the answer to a body without question or with an empty one.
PleaseProvide ==
  HttpResponse("ask", "json", "none", FALSE,
               [NoAnswer EXCEPT !.response = Response("error", "absent", <<>>)])

\* The constructor of thread t raises: initialize_agent logs and the handler
\* runs (lines 813-814); out of get_agent the handler's except answers.
ConstructorRaises(t) ==
  IF thr[t].phase = "before"
    THEN /\ thr' = [thr EXCEPT ![t].pc = "handler"]
         /\ UNCHANGED http
    ELSE /\ thr' = [thr EXCEPT ![t] = IdleThread]
         /\ http' = [http EXCEPT ![t] = Failed(thr[t].endpoint)]

\* load_documentation goes on to the next platform, or returns.
NextPlatform(t, docs) ==
  thr' = [thr EXCEPT ![t].all_docs[CdpOf(t)] = docs,
                     ![t].docs = <<>>,
                     ![t].i = IF thr[t].i = Len(CdpNames) THEN @ ELSE @ + 1,
                     ![t].pc = IF thr[t].i = Len(CdpNames) THEN "loaded" ELSE "check"]

\* Line 257: os.path.exists(cache_file).
LoadCheck(t) ==
  /\ thr[t].pc = "check"
  /\ thr' = [thr EXCEPT ![t].pc = IF files[CdpOf(t)].exists THEN "read" ELSE "scrape"]
  /\ UNCHANGED <<credential, threaded, web, http, stats>>
  /\ UNCHANGED crawlVars
  /\ UNCHANGED loadVars
  /\ UNCHANGED askVars

\* Lines 259-260: the file is opened and parsed.  open raises when the file
\* is gone by now, json.load when it holds no complete JSON text.
LoadRead(t) ==
  /\ thr[t].pc = "read"
  /\ LET file == files[CdpOf(t)]
     IN IF file.exists /\ file.form = "json"
          THEN /\ NextPlatform(t, JsonLoad(file.text))
               /\ UNCHANGED <<http, stats>>
          ELSE /\ ConstructorRaises(t)
               /\ stats' = [stats EXCEPT !.torn =
                              @ \/ \E u \in Threads \ {t} :
                                     thr[u].pc = "dump" /\ CdpOf(u) = CdpOf(t)]
  /\ UNCHANGED <<credential, threaded, web>>
  /\ UNCHANGED crawlVars
  /\ UNCHANGED loadVars
  /\ UNCHANGED askVars

\* Line 263: the platform's site is crawled.
LoadScrape(t) ==
  /\ thr[t].pc = "scrape"
  /\ thr' = [thr EXCEPT ![t].pc = "open",
                        ![t].docs = ScrapeResult[CdpOf(t)][web[CdpOf(t)]]]
  /\ stats' = [stats EXCEPT !.scrapes[CdpOf(t)] = @ + 1]
  /\ UNCHANGED <<credential, threaded, web, http>>
  /\ UNCHANGED crawlVars
  /\ UNCHANGED loadVars
  /\ UNCHANGED askVars

\* Line 265: open(cache_file, 'w') creates the file or empties it.
LoadOpen(t) ==
  /\ thr[t].pc = "open"
  /\ thr' = [thr EXCEPT ![t].pc = "dump"]
  /\ files' = [files EXCEPT ![CdpOf(t)] = PartialFile]
  /\ UNCHANGED <<agent, last_load, loads, deletes>>
  /\ UNCHANGED <<credential, threaded, web, http, stats>>
  /\ UNCHANGED crawlVars
  /\ UNCHANGED askVars

\* Line 266 and the end of the with block: the list is written and the file
\* closed.  While another thread has the file open for writing too, what the
\* file holds in the end is either thread's text or a mix of both.
LoadDump(t) ==
  /\ thr[t].pc = "dump"
  /\ \E mixed \in BOOLEAN :
       /\ mixed => \E u \in Threads \ {t} : thr[u].pc = "dump" /\ CdpOf(u) = CdpOf(t)
       /\ files' = [files EXCEPT ![CdpOf(t)] =
                      IF mixed THEN PartialFile ELSE File(JsonDump(thr[t].docs))]
  /\ NextPlatform(t, thr[t].docs)
  /\ stats' = [stats EXCEPT !.writes[CdpOf(t)] = @ + 1]
  /\ UNCHANGED <<agent, last_load, loads, deletes>>
  /\ UNCHANGED <<credential, threaded, web, http>>
  /\ UNCHANGED crawlVars
  /\ UNCHANGED askVars

\* Lines 40, 811 and 822: the constructor returns and the global agent is set.
ConstructorReturns(t) ==
  /\ thr[t].pc = "loaded"
  /\ agent' = [alive |-> TRUE, documentation |-> thr[t].all_docs]
  /\ thr' = [thr EXCEPT ![t].pc = IF thr[t].phase = "before" THEN "handler" ELSE "serve"]
  /\ stats' = [stats EXCEPT !.constructed = @ + 1]
  /\ UNCHANGED <<files, last_load, loads, deletes>>
  /\ UNCHANGED <<credential, threaded, web, http>>
  /\ UNCHANGED crawlVars
  /\ UNCHANGED askVars

\* status (lines 830-836) and ask (lines 838-848) up to the return of
\* get_agent (lines 816-824).
Handler(t) ==
  /\ thr[t].pc = "handler"
  /\ IF thr[t].endpoint = "ask" /\ thr[t].question.form = "nobody"
       THEN /\ thr' = [thr EXCEPT ![t] = IdleThread]
            /\ http' = [http EXCEPT ![t] = Failed("ask")]
            /\ UNCHANGED stats
       ELSE IF thr[t].endpoint = "ask" /\ thr[t].question.form = "empty"
         THEN /\ thr' = [thr EXCEPT ![t] = IdleThread]
              /\ http' = [http EXCEPT ![t] = PleaseProvide]
              /\ UNCHANGED stats
         ELSE IF agent.alive
           THEN /\ thr' = [thr EXCEPT ![t].pc = "serve"]
                /\ UNCHANGED <<http, stats>>
           ELSE IF ~credential
             THEN /\ thr' = [thr EXCEPT ![t] = IdleThread]
                  /\ http' = [http EXCEPT ![t] = Failed(thr[t].endpoint)]
                  /\ UNCHANGED stats
             ELSE /\ EnterConstructor(t, "get")
                  /\ UNCHANGED http
  /\ UNCHANGED <<credential, threaded, web>>
  /\ UNCHANGED crawlVars
  /\ UNCHANGED loadVars
  /\ UNCHANGED askVars

\* Lines 833-834: the status probe answers ready.
ServeStatus(t) ==
  /\ thr[t].pc = "serve"
  /\ thr[t].endpoint = "status"
  /\ thr' = [thr EXCEPT ![t] = IdleThread]
  /\ http' = [http EXCEPT ![t] = HttpResponse("status", "json", "ready", FALSE, NoAnswer)]
  /\ UNCHANGED <<credential, threaded, web, stats>>
  /\ UNCHANGED crawlVars
  /\ UNCHANGED loadVars
  /\ UNCHANGED askVars

\* Lines 848-856: the agent answers the question; if answer_question raises,
\* the handler's except answers.
ServeAsk(t) ==
  /\ thr[t].pc = "serve"
  /\ thr[t].endpoint = "ask"
  /\ \E o \in CallOutcomes :
       LET classifier == o.classifier
           ranking == o.ranking
           generation == o.generation
           answer == answer_question(thr[t].question.query, agent.documentation,
                                     classifier, ranking, o.reply, generation)
       IN http' = [http EXCEPT ![t] =
                     IF answer.response.source = "raise"
                       THEN [Failed("ask") EXCEPT !.answer.docs = answer.docs,
                                                  !.answer.calls = answer.calls,
                                                  !.answer.query = thr[t].question.query]
                       ELSE HttpResponse("ask", "json", "none", FALSE,
                              [response |-> answer.response,
                               docs |-> answer.docs,
                               calls |-> answer.calls,
                               query |-> thr[t].question.query,
                               classifier |-> classifier,
                               ranking |-> IF answer.calls.rank = 0 THEN "none"
                                           ELSE ranking,
                               generation |-> IF answer.calls.generate = 0 THEN "none"
                                              ELSE generation])]
  /\ thr' = [thr EXCEPT ![t] = IdleThread]
  /\ UNCHANGED <<credential, threaded, web, stats>>
  /\ UNCHANGED crawlVars
  /\ UNCHANGED loadVars
  /\ UNCHANGED askVars

\* A cache file is deleted from outside while the server runs.
ServeDeleteFile ==
  /\ deletes < MaxDeletes
  /\ stats.constructed >= 1
  /\ \E cdp \in Cdps :
       /\ files[cdp].exists
       /\ files' = [files EXCEPT ![cdp] = NoFile]
  /\ deletes' = deletes + 1
  /\ UNCHANGED <<agent, last_load, loads>>
  /\ UNCHANGED serveVars
  /\ UNCHANGED crawlVars
  /\ UNCHANGED askVars

NextServe ==
  \/ \E t \in Threads :
       \/ Receive(t)
       \/ InitializeAgent(t)
       \/ LoadCheck(t)
       \/ LoadRead(t)
       \/ LoadScrape(t)
       \/ LoadOpen(t)
       \/ LoadDump(t)
       \/ ConstructorReturns(t)
       \/ Handler(t)
       \/ ServeStatus(t)
       \/ ServeAsk(t)
  \/ ServeDeleteFile

\* The cache files the server may find for segment when it starts: none, the
\* documents of an earlier crawl, the same without the key 'cdp', an empty
\* list, a file an earlier run left half-written.
SegmentFiles ==
  {NoFile, File(JsonDump(ScrapeResult["segment"]["chain"])),
   File(NoCdpKey(JsonDump(ScrapeResult["segment"]["chain"]))), File(<<>>), PartialFile}

\* A server handling one request at a time: with or without credential, the
\* other platforms' cache files missing or holding empty lists, segment's site
\* down or up, the other sites down.
InitServe ==
  /\ CrawlIdle
  /\ AskIdle
  /\ agent = NoAgent
  /\ last_load = [p \in Cdps |-> [scrapes |-> 0, writes |-> 0, before |-> 0]]
  /\ loads = 0
  /\ deletes = 0
  /\ \E f1 \in SegmentFiles, f2 \in {NoFile, File(<<>>)} :
       files = [p \in Cdps |-> IF p = "segment" THEN f1 ELSE f2]
  /\ credential \in BOOLEAN
  /\ threaded = FALSE
  /\ \E site \in {"down", "chain"} :
       web = [p \in Cdps |-> IF p = "segment" THEN site ELSE "down"]
  /\ thr = [t \in Threads |-> IdleThread]
  /\ http = [t \in Threads |-> NoResponse]
  /\ stats = NoStats

SpecServe == InitServe /\ [][NextServe]_vars

\* A server handling requests concurrently, started with the credential set
\* on an empty cache directory.
InitServeThreaded ==
  /\ CrawlIdle
  /\ AskIdle
  /\ agent = NoAgent
  /\ last_load = [p \in Cdps |-> [scrapes |-> 0, writes |-> 0, before |-> 0]]
  /\ loads = 0
  /\ deletes = 0
  /\ files = [p \in Cdps |-> NoFile]
  /\ credential = TRUE
  /\ threaded = TRUE
  /\ web = [p \in Cdps |-> IF p = "segment" THEN "chain" ELSE "down"]
  /\ thr = [t \in Threads |-> IdleThread]
  /\ http = [t \in Threads |-> NoResponse]
  /\ stats = NoStats

SpecServeThreaded == InitServeThreaded /\ [][NextServe]_vars

\* ------------------------------------------------------------ crawl claims
Occurrences(s, x) == Cardinality({i \in DOMAIN s : s[i] = x})

\* C1: during one scrape_documentation call no URL is fetched more than once,
\* whatever the fetch yields, and a URL that is already visited or already
\* queued is never appended to the frontier (so a self-link, or a link back
\* into a cycle, does not grow it).
C1_NoRefetchNoRequeue ==
  [][/\ crawl'.fetched # crawl.fetched =>
          \E u \in crawl'.visited_urls :
            /\ crawl'.fetched = Append(crawl.fetched, u)
            /\ u \notin Range(crawl.fetched)
     /\ \A u \in Range(crawl'.urls_to_visit) :
          Occurrences(crawl'.urls_to_visit, u) > Occurrences(crawl.urls_to_visit, u) =>
            /\ u \notin crawl'.visited_urls
            /\ u \notin Range(crawl.urls_to_visit)
            /\ Occurrences(crawl'.urls_to_visit, u) = 1]_vars

\* C1's case: a page linked back to a visited or queued URL, pages failed or
\* not, and the crawl went on to fetch other pages.
C1_Witness ==
  /\ relinked
  /\ crawl_pc = "done"
  /\ Len(crawl.fetched) >= 3
  /\ Len(crawl.documents) < Len(crawl.fetched)

\* C2: scrape_documentation terminates; when it does the frontier is empty or
\* the ceiling of 50 was reached; it makes at most 50 fetch attempts, failed
\* and discarded pages included, and returns at most 50 documents.
C2_Terminates ==
  <>(/\ crawl_pc = "done"
     /\ crawl.urls_to_visit = <<>> \/ crawl.count = 50
     /\ Len(crawl.fetched) <= 50
     /\ Len(crawl.documents) <= 50)

\* C2's case: the crawl stopped at the ceiling with URLs still pending, after
\* a fetch that produced no document.
C2_Witness ==
  /\ crawl_pc = "done"
  /\ crawl.count = 50
  /\ crawl.urls_to_visit # <<>>
  /\ Len(crawl.documents) < 50

\* C10: if every link of the seed page is cross-domain, or neither
\* root-relative nor http-prefixed, nothing is enqueued, only the seed is
\* fetched, the result is the seed's document if the page has 20 words and
\* nothing otherwise, and the loop ends; and every URL ever placed in the
\* frontier, the seed aside, has the seed's network location.
C10_SameDomainOnly ==
  LET base_url == cdps(crawl_cdp)
  IN /\ seed_page.links = "foreign" =>
          /\ crawl.urls_to_visit = <<>>
          /\ crawl.fetched = <<base_url>>
          /\ ~LoopCond(crawl)
          /\ Len(crawl.documents) <= 1
          /\ Len(crawl.documents) = 1 <=> seed_page.words >= 20
          /\ \A i \in DOMAIN crawl.documents : crawl.documents[i].url = base_url
     /\ \A u \in Range(crawl.urls_to_visit) \cup crawl.visited_urls :
          u # base_url => u.netloc = base_url.netloc

\* C10's case: the seed page had links, all of them foreign, and the crawl
\* returned the seed's document.
C10_Witness ==
  /\ seed_page.links = "foreign" /\ seed_page.nlinks >= 2
  /\ crawl_pc = "done"
  /\ Len(crawl.documents) = 1

\* The last step was an iteration of the loop that fetched a page.
Fetched == crawl'.fetched # crawl.fetched

\* C11: a fetched page of fewer than 20 words yields no document and none of
\* its links is enqueued; the crawl goes on with the rest of the frontier.  A
\* URL enters the frontier only as a link of the page just fetched, which
\* yielded a document, and only the head of the frontier is fetched: so a URL
\* linked from a short page is fetched only if a page with a document links
\* to it, or it is the seed.  Every document appended is that of a page of at
\* least 20 words, its content cut to 8000 characters.
C11_ShortPageSkipped ==
  [][Fetched =>
       LET page == last_page'.page
           current_url == last_page'.url
       IN /\ current_url = Head(crawl.urls_to_visit)
          /\ crawl'.fetched = Append(crawl.fetched, current_url)
          /\ (page.status = "ok" /\ page.words < 20) =>
               /\ crawl'.documents = crawl.documents
               /\ crawl'.urls_to_visit = Tail(crawl.urls_to_visit)
               /\ crawl_pc' = "loop"
          /\ crawl'.documents # crawl.documents =>
               /\ page.status = "ok" /\ page.words >= 20
               /\ crawl'.documents =
                    Append(crawl.documents,
                           [title |-> IF page.hasTitle THEN "Title" ELSE "Untitled",
                            url |-> current_url,
                            content |-> IF page.chars > 8000 THEN 8000 ELSE page.chars,
                            cdp |-> crawl_cdp, synthetic |-> FALSE])
          /\ \A u \in Range(crawl'.urls_to_visit) \ Range(crawl.urls_to_visit) :
               /\ page.status = "ok" /\ page.words >= 20
               /\ Len(crawl'.documents) = Len(crawl.documents) + 1
               /\ u \in last_page'.targets]_vars

\* C11's case: after a page with a document, a page of fewer than 20 words was
\* fetched that links to a URL of the domain not seen before; the URL was not
\* enqueued and the frontier holds further URLs.
C11_Witness ==
  /\ crawl_pc = "loop"
  /\ last_page.page.status = "ok"
  /\ last_page.page.words < 20
  /\ last_page.targets # {}
  /\ last_page.targets \cap (crawl.visited_urls \cup Range(crawl.urls_to_visit)) = {}
  /\ crawl.documents # <<>>
  /\ crawl.urls_to_visit # <<>>

\* s is the beginning of t.
IsPrefix(s, t) == Len(s) <= Len(t) /\ \A i \in DOMAIN s : s[i] = t[i]

Failures == {"raise", "non200"}

\* C13: a fetch that returns a non-200 status or raises, or a parse that
\* raises, yields no document for its URL, which is not put back into the
\* frontier; the documents collected before stay in the result, the rest of the
\* frontier is kept and the call does not return: the next iteration pops the
\* next URL of the frontier.  No iteration at all, urlparse raising on a link
\* included, drops a document or a pending URL or ends the call.
C13_FailureSkipsPage ==
  [][Fetched =>
       LET page == last_page'.page
           current_url == last_page'.url
       IN /\ page.status \in Failures =>
               /\ crawl'.documents = crawl.documents
               /\ crawl'.urls_to_visit = Tail(crawl.urls_to_visit)
               /\ current_url \in crawl'.visited_urls
               /\ crawl'.count = crawl.count + 1
          /\ last_page.page.status \in Failures =>
               /\ current_url = Head(crawl.urls_to_visit)
               /\ current_url # last_page.url
               /\ last_page.url \notin Range(crawl'.urls_to_visit)
          /\ IsPrefix(crawl.documents, crawl'.documents)
          /\ IsPrefix(Tail(crawl.urls_to_visit), crawl'.urls_to_visit)
          /\ crawl_pc' = "loop"]_vars

\* C13's case: a fetch failed after a document had been collected, and the
\* next iteration fetched the next URL and added its document.
C13_Witness ==
  /\ last_page.prev \in Failures
  /\ last_page.page.status = "ok"
  /\ Len(crawl.documents) >= 2
  /\ crawl.documents[Len(crawl.documents)].url = last_page.url
  /\ Len(crawl.fetched) > Len(crawl.documents)

\* The place of x in the sequence s of distinct elements.
IndexOf(s, x) == CHOOSE i \in DOMAIN s : s[i] = x

NoDuplicates(s) == Cardinality(Range(s)) = Len(s)

\* C18: whenever the loop condition is evaluated the frontier holds no URL
\* twice and no visited URL, and count is the number of visited URLs; the skip
\* of line 286 is never taken; the documents have pairwise distinct URLs and
\* stand in the order their URLs were fetched, which is the order they were
\* enqueued: fetched followed by the frontier, the URLs in the order of their
\* first enqueueing, only grows at its end.
C18_FrontierInvariant ==
  /\ [](/\ NoDuplicates(crawl.urls_to_visit)
        /\ Range(crawl.urls_to_visit) \cap crawl.visited_urls = {}
        /\ crawl.count = Cardinality(crawl.visited_urls)
        /\ ~crawl.skipped
        /\ NoDuplicates(Urls(crawl.documents))
        /\ Range(Urls(crawl.documents)) \subseteq Range(crawl.fetched)
        /\ \A i \in 1..(Len(crawl.documents) - 1) :
             IndexOf(crawl.fetched, crawl.documents[i].url)
               < IndexOf(crawl.fetched, crawl.documents[i + 1].url))
  /\ [][crawl' # crawl =>
          /\ crawl'.fetched = Append(crawl.fetched, Head(crawl.urls_to_visit))
          /\ IsPrefix(crawl.fetched \o crawl.urls_to_visit,
                      crawl'.fetched \o crawl'.urls_to_visit)]_vars

\* C18's case: pages linked back to visited and queued URLs, several URLs are
\* pending and several documents collected.
C18_Witness ==
  /\ crawl_pc = "loop"
  /\ relinked
  /\ Len(crawl.urls_to_visit) >= 2
  /\ Len(crawl.documents) >= 3
  /\ Len(crawl.fetched) > Len(crawl.documents)

\* ------------------------------------------------------------ cache claims
\* C3: a load_documentation call that finds a platform's cache file returns the
\* list stored in the file, does not call the crawler for it and does not
\* write the file, which stays as it was; a load that follows another load
\* with the file still there returns the same list again.
C3_CacheHit ==
  [][\A cdp \in Cdps :
       (loads' = loads + 1 /\ files[cdp].exists) =>
         /\ last_load'[cdp].scrapes = 0
         /\ last_load'[cdp].writes = 0
         /\ files'[cdp] = files[cdp]
         /\ Len(agent'.documentation[cdp]) = Len(files[cdp].text)
         /\ \A i \in DOMAIN files[cdp].text :
              LET doc == agent'.documentation[cdp][i]
              IN <<doc.title, doc.url, doc.content, doc.cdp>> = files[cdp].text[i]
         /\ agent.alive => agent'.documentation[cdp] = agent.documentation[cdp]]_vars

\* C3's case: a second load in a row found the file of a platform with
\* documents and did not crawl.
C3_Witness ==
  /\ loads = 2
  /\ deletes = 0
  /\ \E cdp \in Cdps :
       /\ last_load[cdp].scrapes = 0
       /\ files[cdp].exists
       /\ Len(agent.documentation[cdp]) >= 2

\* C4: a load_documentation call that finds no cache file for a platform calls
\* the crawler once for it and writes the result to the platform's file, so
\* that afterwards the file exists and holds the list returned; the next load
\* finds the file, does not crawl and returns the same list.
C4_CacheMiss ==
  [][\A cdp \in Cdps :
       /\ (loads' = loads + 1 /\ ~files[cdp].exists) =>
            /\ last_load'[cdp].scrapes = 1
            /\ last_load'[cdp].writes = 1
            /\ files'[cdp].exists
            /\ agent'.documentation[cdp] \in CrawlResults(cdp)
            /\ Len(files'[cdp].text) = Len(agent'.documentation[cdp])
            /\ \A i \in DOMAIN files'[cdp].text :
                 LET doc == agent'.documentation[cdp][i]
                 IN files'[cdp].text[i] = <<doc.title, doc.url, doc.content, doc.cdp>>
       /\ (loads' = loads + 1 /\ last_load[cdp].scrapes = 1 /\ files[cdp].exists) =>
            /\ last_load'[cdp].scrapes = 0
            /\ agent'.documentation[cdp] = agent.documentation[cdp]
            /\ files'[cdp] = files[cdp]]_vars

\* C4's case: a platform without cache file was crawled and its documents
\* written, and a later load read them back without crawling.
C4_Witness ==
  /\ loads = 2
  /\ \E cdp \in Cdps :
       /\ last_load[cdp].before = 1
       /\ last_load[cdp].scrapes = 0
       /\ files[cdp].exists
       /\ Len(files[cdp].text) >= 2
       /\ Len(agent.documentation[cdp]) = Len(files[cdp].text)

\* ------------------------------------------------------------ answer claims
\* The question asked passed the topical gate.
Related == request.asked /\ calls.classify = 1 /\ response.source # "off-topic"

\* C5: when find_relevant_documents has candidates and the ranking call
\* raises, it returns exactly min(3, len(candidates)) documents: the first
\* candidates, in their order.
C5_RankingFailureFallback ==
  (request.asked /\ request.ranking = "raise") =>
    LET candidates == Candidates(request.query)
    IN /\ candidates # <<>>
       /\ Len(relevant_docs) = Min(3, Len(candidates))
       /\ \A i \in DOMAIN relevant_docs : relevant_docs[i] = candidates[i]

\* C5's case: the ranking call raised with more than three candidates.
C5_Witness ==
  /\ request.asked /\ request.ranking = "raise"
  /\ Len(Candidates(request.query)) > 3
  /\ Len(relevant_docs) = 3

\* C6: whatever the ranking call replies, find_relevant_documents returns at
\* most 3 documents, each one of the first 20 candidates.
C6_AtMostThree ==
  (request.asked /\ calls.rank = 1) =>
    /\ Len(relevant_docs) <= 3
    /\ \A i \in DOMAIN relevant_docs :
         \E j \in 1..Min(20, Len(Candidates(request.query))) :
           relevant_docs[i] = Candidates(request.query)[j]

C8_OffTopic ==
  (/\ request.asked
   /\ \/ request.classifier = "no"
      \/ request.classifier = "raise" /\ request.query \cap CdpTerms = {}) =>
    /\ response.source = "off-topic"
    /\ calls.rank = 0
    /\ calls.generate = 0
    /\ relevant_docs = <<>>

\* C8's case: "What's the weather today?" with the classifier call failing.
C8_Witness ==
  /\ request.asked
  /\ request.query = {}
  /\ request.classifier = "raise"
  /\ response.source = "off-topic"

\* C9: a CDP-related question naming Segment, with at least one real document
\* in the Segment list and the external calls working, is answered "doc-based"
\* with a non-empty urls list of URLs of Segment documents, whatever the
\* ranking call replies.
C9_SegmentDocBased ==
  (/\ Related
   /\ "segment" \in request.query
   /\ agent.documentation["segment"] # <<>>
   /\ request.classifier = "yes"
   /\ request.ranking = "reply"
   /\ request.generation # "raise") =>
    /\ response.source = "doc-based"
    /\ response.urls # <<>>
    /\ \A i \in DOMAIN response.urls :
         \E j \in DOMAIN agent.documentation["segment"] :
           agent.documentation["segment"][j].url = response.urls[i]

\* The reply holds a piece int() rejects.
HasNonInteger(reply) == \E i \in DOMAIN reply : ~reply[i].int

\* The reply holds an integer that is no index of a list of n documents.
HasOutOfRange(reply, n) ==
  \E i \in DOMAIN reply : reply[i].int /\ (reply[i].val < 0 \/ reply[i].val >= n)

\* The ranking call replied to the question asked.
Replied == request.asked /\ request.ranking = "reply" /\ calls.rank = 1

\* The first three candidates of the question asked, in their order.
FirstThree == Take(Take(Candidates(request.query), 20), 3)

\* C14: when the ranking call succeeds but its reply holds a piece that is no
\* integer, or an index outside 0..len(candidates)-1 (a negative one included),
\* find_relevant_documents returns the first three candidates in their order.
C14_UnusableReplyFallback ==
  (/\ Replied
   /\ \/ HasNonInteger(request.reply)
      \/ HasOutOfRange(request.reply, Len(Take(Candidates(request.query), 20)))) =>
    relevant_docs = FirstThree

\* C15: a CDP-related question with a non-empty selection is answered on the
\* direct path (direct-groq) only when the selection is the synthetic
\* placeholder; a selection of one or more real documents is answered on the
\* documentation path: doc-based, with the URLs of the selected documents in
\* the order of the selection, if the generation call succeeds.
C15_DirectOnlyWhenSynthetic ==
  (Related /\ relevant_docs # <<>> /\ request.generation = "ok") =>
    IF \E i \in DOMAIN relevant_docs : relevant_docs[i].synthetic
      THEN response.source = "direct-groq"
      ELSE /\ response.source = "doc-based"
           /\ response.urls = [i \in DOMAIN relevant_docs |-> relevant_docs[i].url]

\* ------------------------------------------------------------ server claims
Sources == {"off-topic", "no-docs", "direct-groq", "doc-based", "error"}

\* C12: every response to a POST to /ask, whatever fails (no credential, no
\* or an empty question, the classification, ranking or generation call, a
\* cache file that does not parse or whose objects lack a key), is a JSON body
\* with an answer whose source is off-topic, no-docs, direct-groq, doc-based or
\* error; every response of the status probe says ready, or loading with an
\* error field; no exception leaves a handler, and a request in a handler has
\* not been answered yet.
C12_AlwaysJson ==
  \A t \in Threads :
    /\ http[t].sent =>
         /\ http[t].kind = "json"
         /\ http[t].endpoint = "ask" =>
              /\ http[t].answer.response.source \in Sources
              /\ http[t].status = "none"
         /\ http[t].endpoint = "status" =>
              /\ http[t].status \in {"ready", "loading"}
              /\ http[t].error <=> http[t].status = "loading"
              /\ http[t].status = "ready" => agent.alive
         /\ thr[t].pc = "idle"
    /\ thr[t].pc # "idle" => ~http[t].sent

\* C12's case: the cached documents lack the key 'cdp', two of them were
\* selected, answer_question raised on them after the ranking call and the
\* handler answered with source error.
C12_Witness ==
  \E t \in Threads :
    /\ http[t].sent
    /\ http[t].endpoint = "ask"
    /\ http[t].answer.response.source = "error"
    /\ Len(http[t].answer.docs) = 2
    /\ \E i \in DOMAIN http[t].answer.docs : http[t].answer.docs[i].cdp = "absent"
    /\ http[t].answer.calls = [classify |-> 1, rank |-> 1, generate |-> 0]

\* C16: with the credential set and one request at a time, once an agent is
\* constructed no request constructs another: the agent and its document
\* lists stay as they are and no platform is crawled again, even after a cache
\* file was deleted.
C16_ConstructedOnce ==
  [][(credential /\ agent.alive) =>
       /\ agent' = agent
       /\ stats'.started = stats.started
       /\ stats'.scrapes = stats.scrapes]_vars

\* The threads whose request has not run initialize_agent yet.
NotInitialized == {t \in Threads : thr[t].pc = "before"}

\* C17: initialisation is not serialised.  Every request that has run
\* initialize_agent has started a constructor of its own, whether or not
\* another thread's constructor was running or had finished, and a constructor
\* that finds no cache file crawls the platform and writes the file whatever
\* the other thread does: a platform is crawled as often as its file is found
\* missing, and a file is read as incomplete only while or after another
\* thread writes it.
C17_NotSerialised ==
  /\ [](/\ stats.started >= stats.requests - Cardinality(NotInitialized)
        /\ \A cdp \in Cdps : stats.writes[cdp] <= stats.scrapes[cdp]
        /\ stats.torn => \E cdp \in Cdps : stats.scrapes[cdp] >= 1)
  /\ [][\A t \in Threads :
          /\ (thr[t].pc = "check" /\ thr'[t].pc # "check") =>
               thr'[t].pc = IF files[CdpOf(t)].exists THEN "read" ELSE "scrape"
          /\ (thr[t].pc = "scrape" /\ thr'[t].pc # "scrape") =>
               /\ thr'[t].pc = "open"
               /\ stats'.scrapes[CdpOf(t)] = stats.scrapes[CdpOf(t)] + 1
          /\ (thr[t].pc = "open" /\ thr'[t].pc # "open") =>
               /\ thr'[t].pc = "dump"
               /\ files'[CdpOf(t)] = PartialFile
          /\ (thr[t].pc = "dump" /\ thr'[t].pc # "dump") =>
               stats'.writes[CdpOf(t)] = stats.writes[CdpOf(t)] + 1]_vars

\* C17's case: two concurrent first requests on an empty cache directory; both
\* crawled segment and both wrote its cache file, a thread read a file the
\* other had open for writing, and two agents were constructed.
C17_Witness ==
  /\ stats.requests = 2
  /\ stats.scrapes["segment"] = 2
  /\ stats.writes["segment"] = 2
  /\ stats.torn
  /\ stats.constructed >= 2

\* The question answered to thread t passed the topical gate.
RelatedAt(t) ==
  /\ http[t].sent
  /\ http[t].endpoint = "ask"
  /\ http[t].answer.calls.classify = 1
  /\ http[t].answer.response.source # "off-topic"

\* What an answer to a question about a platform without documents looks
\* like: the selection is the platform's placeholder, made without ranking
\* call, and the source is direct-groq, or error if the generation failed.
PlaceholderAnswer(t, cdp) ==
  /\ Len(http[t].answer.docs) = 1
  /\ http[t].answer.docs[1].synthetic
  /\ http[t].answer.docs[1].cdp = cdp
  /\ http[t].answer.calls.rank = 0
  /\ http[t].answer.calls.generate = 1
  /\ http[t].answer.response.source =
       IF http[t].answer.generation = "raise" THEN "error" ELSE "direct-groq"

\* What the program does with a platform whose crawl returned nothing: the
\* empty list is written to the cache file; while the file holds it, no step
\* of the program crawls the platform or changes the file, and a load reads
\* the empty list from it.
EmptyListKept ==
  \A t \in Threads :
    LET cdp == CdpOf(t)
    IN /\ (thr[t].pc = "dump" /\ thr'[t].pc # "dump" /\ thr[t].docs = <<>>) =>
            /\ files'[cdp] = File(<<>>)
            /\ thr'[t].all_docs[cdp] = <<>>
       /\ (thr[t].pc \in {"check", "read"} /\ thr'[t].pc # thr[t].pc
             /\ files[cdp] = File(<<>>)) =>
            /\ thr'[t].pc # "scrape"
            /\ files' = files
            /\ stats'.scrapes = stats.scrapes
            /\ thr[t].pc = "read" => thr'[t].all_docs[cdp] = <<>>

\* C19 as claimed: a crawl without documents leaves an empty list in the
\* cache file, later loads return it without crawling, and every CDP-related
\* question that names the platform gets the placeholder answer.
C19_AsClaimed ==
  /\ [](\A t \in Threads, cdp \in Cdps :
          (RelatedAt(t) /\ cdp \in http[t].answer.query
             /\ agent.documentation[cdp] = <<>>) =>
            /\ Len(http[t].answer.docs) = 1
            /\ http[t].answer.docs[1].synthetic
            /\ http[t].answer.calls.rank = 0
            /\ http[t].answer.response.source \in {"direct-groq", "error"})
  /\ [][EmptyListKept]_vars

\* C19 amended: a crawl without documents leaves an empty list in the cache
\* file, later loads return it without crawling, and every CDP-related
\* question whose identified platform (the first of self.cdps it names) is that
\* platform gets the platform's placeholder, without ranking call, and the
\* answer direct-groq, or error if the generation fails.
C19_EmptyCachePlaceholder ==
  /\ [](\A t \in Threads, cdp \in Cdps :
          (RelatedAt(t) /\ IdentifyCdp(http[t].answer.query) = cdp
             /\ agent.documentation[cdp] = <<>>) =>
            PlaceholderAnswer(t, cdp))
  /\ [][EmptyListKept]_vars

\* C19's case: segment's first crawl returned nothing and the empty list was
\* written; the next request's load read it without crawling, and its
\* question about Segment got the placeholder.
C19_Witness ==
  /\ stats.scrapes["segment"] = 1
  /\ stats.writes["segment"] = 1
  /\ stats.constructed = 2
  /\ files["segment"] = File(<<>>)
  /\ RelatedAt(1)
  /\ IdentifyCdp(http[1].answer.query) = "segment"
  /\ PlaceholderAnswer(1, "segment")

====
